---- MODULE Spec2Model ----
(***************************************************************************)
(* The animated US edge-location map of src/scripts/globe.ts (class USMap  *)
(* and the page bootstrap around it), as a state machine.                  *)
(*                                                                         *)
(* Numbers.  The program computes in IEEE doubles.  The model computes in  *)
(* fixed point: a program number r is the integer floor(r * Unit), every   *)
(* product and quotient is rounded down once, in the order the source      *)
(* writes the operations.  Like the doubles, this arithmetic is exact on   *)
(* 0 and 1 and rounds monotonically, and unlike the reals it can refute a  *)
(* claim of exactness or of monotonicity.                                  *)
(*                                                                         *)
(* Math.random() is an input: each call draws one of RandomSamples.        *)
(***************************************************************************)
EXTENDS Integers, Sequences, FiniteSets

\* One program unit (1.0) in fixed point: three decimal places, so that the
\* source's 0.8, 0.9, 0.002, 0.003 and the two-decimal coordinates are exact.
Unit == 10^3

Real(n) == n * Unit
Mul(a, b) == (a * b) \div Unit
Div(a, b) == (a * Unit) \div b
Min(a, b) == IF a < b THEN a ELSE b

\* ------------------------------------------------------------------ bounds

\* Animation ticks explored from construction.
MaxFrames == 3
\* The source creates 15 packets on a narrow viewport and 25 on a wide one
\* (globe.ts:192); the model creates these scaled-down counts, narrow < wide.
PacketsNarrow == 1
PacketsWide == 2
\* Edge locations the map is built on, of the 28 in the source's table.
NumLocations == 4

\* The values Math.random() returns in the model: 0 and 0.999 (it is < 1).
RandomSamples == {0, Unit - 1}

\* Viewports <<innerWidth, innerHeight>> a window is resized to, in CSS
\* pixels: narrow and wide of the 768 threshold, on both sides of the 59/26
\* aspect ratio.
Viewports == {<<600, 800>>, <<1000, 400>>}

\* The pages the script is loaded on: a phone (narrow, portrait, device
\* pixel ratio 2) and a desktop window (wide, landscape, devicePixelRatio
\* absent or 0, which falls back to 1).
Hosts ==
  {[innerWidth |-> 600, innerHeight |-> 800, devicePixelRatio |-> Real(2)],
   [innerWidth |-> 1000, innerHeight |-> 400, devicePixelRatio |-> 0]}

\* ------------------------------------------------------- program constants

US_LAT_MIN == 24
US_LAT_MAX == 50
US_LON_MIN == -125
US_LON_MAX == -66

\* Viewport fractions the map is fitted to (0.8 of the height, 0.9 of the width).
HeightFraction == (8 * Unit) \div 10
WidthFraction == (9 * Unit) \div 10

\* window.innerWidth < 768 picks the smaller packet count.
NarrowBelow == 768

\* speed = 0.002 + Math.random() * 0.003
SpeedBase == (2 * Unit) \div 1000
SpeedSpread == (3 * Unit) \div 1000

\* The control point sits 50 pixels above the higher endpoint.
ControlLift == 50

\* Latitude and longitude of the 28 edge locations, in fixed point.
AllEdgeLocations ==
  << [lat |-> 39040, lon |-> -77490], [lat |-> 33750, lon |-> -84390],
     [lat |-> 42360, lon |-> -71060], [lat |-> 30330, lon |-> -81660],
     [lat |-> 25760, lon |-> -80190], [lat |-> 40710, lon |-> -74010],
     [lat |-> 40740, lon |-> -74170], [lat |-> 39950, lon |-> -75170],
     [lat |-> 27950, lon |-> -82460], [lat |-> 38910, lon |-> -77040],
     [lat |-> 41880, lon |-> -87630], [lat |-> 39960, lon |-> -83000],
     [lat |-> 32780, lon |-> -96800], [lat |-> 39740, lon |-> -104990],
     [lat |-> 29760, lon |-> -95370], [lat |-> 39100, lon |-> -94580],
     [lat |-> 44980, lon |-> -93270], [lat |-> 36160, lon |-> -86780],
     [lat |-> 41680, lon |-> -86250], [lat |-> 38630, lon |-> -90200],
     [lat |-> 37670, lon |-> -122080], [lat |-> 34050, lon |-> -118240],
     [lat |-> 37440, lon |-> -122140], [lat |-> 33450, lon |-> -112070],
     [lat |-> 45520, lon |-> -122680], [lat |-> 40760, lon |-> -111890],
     [lat |-> 37340, lon |-> -121890], [lat |-> 47610, lon |-> -122330] >>

\* The table the modelled map runs on: the first NumLocations entries.
edgeLocations == SubSeq(AllEdgeLocations, 1, NumLocations)

VARIABLES
  \* the host page
  hasWindow, readyState, hasCanvas, contextAvailable,
  innerWidth, innerHeight, devicePixelRatio, mediaMatches,
  \* the bootstrap; domListener: initMap waits for DOMContentLoaded
  phase, errorRaised, constructorCalls,
  domListener, resizeListener, motionListener, pendingFrames,
  \* USMap's fields
  width, height, mapWidth, mapHeight, offsetX, offsetY,
  dataPackets, prefersReducedMotion, pixelRatio, connections,
  \* the canvas: backing-buffer size, the context's scale transform, and
  \* the packet positions painted on it since it was last cleared
  canvasWidth, canvasHeight, ctxScale, drawn,
  \* ticks run so far
  frame,
  \* the last direct evaluation of a formula (see SpecFormula)
  probe

pageVars == <<hasWindow, readyState, hasCanvas, contextAvailable,
              innerWidth, innerHeight, devicePixelRatio, mediaMatches>>
bootVars == <<phase, errorRaised, constructorCalls,
              domListener, resizeListener, motionListener, pendingFrames>>
projVars == <<width, height, mapWidth, mapHeight, offsetX, offsetY>>
canvasVars == <<canvasWidth, canvasHeight, ctxScale, drawn>>
vars == <<pageVars, bootVars, projVars, canvasVars,
          dataPackets, prefersReducedMotion, pixelRatio, connections,
          frame, probe>>

\* ------------------------------------------------------- pure functions

\* generateConnections: for (i = 0; i < n; i++) for (j = i + 1; j < n; j++)
\* connections.push({from: i, to: j}), on the empty array of a new USMap.
\* ConnectionsInner is what the inner loop pushes from j on, ConnectionsOuter
\* what the outer loop pushes from i on.
RECURSIVE ConnectionsInner(_, _, _)
ConnectionsInner(i, j, n) ==
  IF j < n
    THEN <<[from |-> i, to |-> j]>> \o ConnectionsInner(i, j + 1, n)
    ELSE <<>>

RECURSIVE ConnectionsOuter(_, _)
ConnectionsOuter(i, n) ==
  IF i < n
    THEN ConnectionsInner(i, i + 1, n) \o ConnectionsOuter(i + 1, n)
    ELSE <<>>

\* generateConnections with the inner loop started at j = i.
RECURSIVE ConnectionsOuterSelf(_, _)
ConnectionsOuterSelf(i, n) ==
  IF i < n
    THEN ConnectionsInner(i, i, n) \o ConnectionsOuterSelf(i + 1, n)
    ELSE <<>>

GenerateConnectionsSelf(n) == ConnectionsOuterSelf(0, n)

GenerateConnections(n) == ConnectionsOuter(0, n)

\* usAspectRatio = (US_LON_MAX - US_LON_MIN) / (US_LAT_MAX - US_LAT_MIN)
usAspectRatio ==
  Div(Real(US_LON_MAX) - Real(US_LON_MIN), Real(US_LAT_MAX) - Real(US_LAT_MIN))

\* resize() scaling the context without its transform having been reset.
ScaleAccumulates(before, pr) == Mul(before, pr)

\* The transform of the 2D context once resize() has run: assigning
\* canvas.width / canvas.height resets the context to the identity
\* transform, and ctx.scale(pixelRatio, pixelRatio) then multiplies it.
ScaleAfterResize(before, pr) == Mul(Real(1), pr)

\* resize(): the fields it stores for a w x h viewport and pixel ratio pr.
\* canvas.width and canvas.height are integer attributes.
Resize(w, h, pr) ==
  LET wd == Real(w)
      ht == Real(h)
      screenAspectRatio == Div(wd, ht)
      wide == screenAspectRatio > usAspectRatio
      mH == IF wide THEN Mul(ht, HeightFraction)
                    ELSE Div(Mul(wd, WidthFraction), usAspectRatio)
      mW == IF wide THEN Mul(Mul(ht, HeightFraction), usAspectRatio)
                    ELSE Mul(wd, WidthFraction)
  IN  [width |-> wd, height |-> ht,
       canvasWidth |-> Mul(wd, pr) \div Unit,
       canvasHeight |-> Mul(ht, pr) \div Unit,
       mapWidth |-> mW, mapHeight |-> mH,
       offsetX |-> Div(wd - mW, Real(2)),
       offsetY |-> Div(ht - mH, Real(2))]

\* latLonToXY with the longitude not taken relative to US_LON_MIN.
LatLonToXYAbsolute(lat, lon, oX, oY, mW, mH) ==
  [x |-> oX + Mul(Div(lon, Real(US_LON_MAX) - Real(US_LON_MIN)), mW),
   y |-> oY + Mul(Div(Real(US_LAT_MAX) - lat,
                      Real(US_LAT_MAX) - Real(US_LAT_MIN)), mH)]

\* latLonToXY with the latitude axis not inverted.
LatLonToXYUpright(lat, lon, oX, oY, mW, mH) ==
  [x |-> oX + Mul(Div(lon - Real(US_LON_MIN),
                      Real(US_LON_MAX) - Real(US_LON_MIN)), mW),
   y |-> oY + Mul(Div(lat - Real(US_LAT_MIN),
                      Real(US_LAT_MAX) - Real(US_LAT_MIN)), mH)]

\* latLonToXY under projection parameters oX, oY, mW, mH.
LatLonToXY(lat, lon, oX, oY, mW, mH) ==
  [x |-> oX + Mul(Div(lon - Real(US_LON_MIN),
                      Real(US_LON_MAX) - Real(US_LON_MIN)), mW),
   y |-> oY + Mul(Div(Real(US_LAT_MAX) - lat,
                      Real(US_LAT_MAX) - Real(US_LAT_MIN)), mH)]

\* Math.floor(r * edgeLocations.length) for a draw r of Math.random().
RandomIndex(r) == (r * Len(edgeLocations)) \div Unit

NumPackets(w) == IF w < NarrowBelow THEN PacketsNarrow ELSE PacketsWide

\* One packet of initDataPackets from four draws of Math.random().
NewPacket(r) ==
  [from |-> RandomIndex(r[1]), to |-> RandomIndex(r[2]),
   progress |-> r[3], speed |-> SpeedBase + Mul(r[4], SpeedSpread)]

\* The packet update wrapping by carrying the excess over 1.
StepPacketCarry(packet, reduced, r1, r2) ==
  IF reduced
    THEN packet
    ELSE LET p == packet.progress + packet.speed
         IN  IF p >= Unit
               THEN [packet EXCEPT !.progress = p - Unit,
                                   !.from = RandomIndex(r1),
                                   !.to = RandomIndex(r2)]
               ELSE [packet EXCEPT !.progress = p]

\* The packet update not gated by the reduced-motion flag.
StepPacketAlways(packet, reduced, r1, r2) ==
  LET p == packet.progress + packet.speed
  IN  IF p >= Unit
        THEN [packet EXCEPT !.progress = 0,
                            !.from = RandomIndex(r1),
                            !.to = RandomIndex(r2)]
        ELSE [packet EXCEPT !.progress = p]

\* The update at the head of drawDataPackets' loop body; r1, r2 are the
\* draws used if the packet wraps.
StepPacket(packet, reduced, r1, r2) ==
  IF reduced
    THEN packet
    ELSE LET p == packet.progress + packet.speed
         IN  IF p >= Unit
               THEN [packet EXCEPT !.progress = 0,
                                   !.from = RandomIndex(r1),
                                   !.to = RandomIndex(r2)]
               ELSE [packet EXCEPT !.progress = p]

\* The interpolation with the control weight written 2*t.
BezierControlWeight(p0, c, p1, t) ==
  Mul(Mul(Unit - t, Unit - t), p0) + Mul(2 * t, c) + Mul(Mul(t, t), p1)

\* (1-t)*(1-t)*p0 + 2*(1-t)*t*c + t*t*p1, one coordinate.
Bezier(p0, c, p1, t) ==
  Mul(Mul(Unit - t, Unit - t), p0)
    + Mul(Mul(2 * (Unit - t), t), c)
    + Mul(Mul(t, t), p1)

\* The control point of the arc between two projected points.
ControlPoint(fromPoint, toPoint) ==
  [x |-> Div(fromPoint.x + toPoint.x, Real(2)),
   y |-> Min(fromPoint.y, toPoint.y) - Real(ControlLift)]

\* Where drawDataPackets paints a packet at progress t between two points.
PacketXY(fromPoint, toPoint, t) ==
  LET c == ControlPoint(fromPoint, toPoint)
  IN  [x |-> Bezier(fromPoint.x, c.x, toPoint.x, t),
       y |-> Bezier(fromPoint.y, c.y, toPoint.y, t)]

LocationPoint(i, oX, oY, mW, mH) ==
  LatLonToXY(edgeLocations[i + 1].lat, edgeLocations[i + 1].lon, oX, oY, mW, mH)

\* animate() asking for the next frame only while motion is allowed.
FramesRequestedUnlessReduced(reduced) == IF reduced THEN 0 ELSE 1

\* The requestAnimationFrame calls one animate() makes.
FramesRequested(reduced) == 1

\* The packet lists drawDataPackets can leave behind: each packet stepped,
\* over the draws of Math.random() its wrap consumes.
RECURSIVE StepAll(_, _)
StepAll(packets, reduced) ==
  IF packets = <<>>
    THEN {<<>>}
    ELSE {<<h>> \o t :
            h \in {StepPacket(Head(packets), reduced, r1, r2) :
                     r1 \in RandomSamples, r2 \in RandomSamples},
            t \in StepAll(Tail(packets), reduced)}

\* The positions drawDataPackets paints, one arc() pair per packet.
Painted(packets, oX, oY, mW, mH) ==
  [i \in 1..Len(packets) |->
     PacketXY(LocationPoint(packets[i].from, oX, oY, mW, mH),
              LocationPoint(packets[i].to, oX, oY, mW, mH),
              packets[i].progress)]

\* ----------------------------------------------------------------- state

NoProbe == [kind |-> "none"]

\* The page as the module script starts to run; no USMap exists yet, and its
\* fields hold their declared initial values.
Init ==
  /\ hasWindow \in BOOLEAN
  /\ readyState \in {"loading", "complete"}
  /\ hasCanvas \in BOOLEAN
  /\ contextAvailable \in BOOLEAN
  /\ \E host \in Hosts :
       /\ innerWidth = host.innerWidth
       /\ innerHeight = host.innerHeight
       /\ devicePixelRatio = host.devicePixelRatio
  /\ mediaMatches \in BOOLEAN
  /\ phase = "script"
  /\ errorRaised = FALSE
  /\ constructorCalls = 0
  /\ domListener = FALSE
  /\ resizeListener = FALSE
  /\ motionListener = FALSE
  /\ pendingFrames = 0
  /\ width = 0 /\ height = 0
  /\ mapWidth = 0 /\ mapHeight = 0
  /\ offsetX = 0 /\ offsetY = 0
  /\ dataPackets = <<>>
  /\ prefersReducedMotion = FALSE
  /\ pixelRatio = Real(1)
  /\ connections = <<>>
  /\ canvasWidth = 0 /\ canvasHeight = 0
  /\ ctxScale = Real(1)
  /\ drawn = <<>>
  /\ frame = 0
  /\ probe = NoProbe

mapVars == <<projVars, canvasVars, dataPackets, prefersReducedMotion,
             pixelRatio, connections, frame>>

\* new USMap(canvas) with a 2D context: the constructor's body, its first
\* animate() call included.  inits are initDataPackets' draws.
Construct(inits) ==
  LET pr == IF devicePixelRatio = 0 THEN Real(1) ELSE devicePixelRatio
      r == Resize(innerWidth, innerHeight, pr)
      packets == [i \in 1..NumPackets(innerWidth) |-> NewPacket(inits[i])]
  IN  /\ pixelRatio' = pr
      /\ prefersReducedMotion' = mediaMatches
      /\ motionListener' = TRUE
      /\ connections' = GenerateConnections(Len(edgeLocations))
      /\ width' = r.width /\ height' = r.height
      /\ canvasWidth' = r.canvasWidth /\ canvasHeight' = r.canvasHeight
      /\ ctxScale' = ScaleAfterResize(ctxScale, pr)
      /\ mapWidth' = r.mapWidth /\ mapHeight' = r.mapHeight
      /\ offsetX' = r.offsetX /\ offsetY' = r.offsetY
      /\ resizeListener' = TRUE
      /\ dataPackets' \in StepAll(packets, mediaMatches)
      /\ drawn' = Painted(dataPackets', r.offsetX, r.offsetY,
                          r.mapWidth, r.mapHeight)
      /\ pendingFrames' = pendingFrames + FramesRequested(mediaMatches)
      /\ frame' = frame + 1
      /\ phase' = "running"
      /\ errorRaised' = errorRaised

\* initMap over a constructor that registers its listeners before it
\* looks at the context.
InitMapListenersFirst ==
  IF ~hasCanvas
    THEN /\ phase' = "inactive"
         /\ UNCHANGED <<errorRaised, constructorCalls, resizeListener,
                        motionListener, pendingFrames, mapVars>>
    ELSE /\ constructorCalls' = constructorCalls + 1
         /\ IF ~contextAvailable
              THEN /\ phase' = "failed"
                   /\ errorRaised' = TRUE
                   /\ motionListener' = TRUE
                   /\ resizeListener' = TRUE
                   /\ UNCHANGED <<pendingFrames, mapVars>>
              ELSE \E inits \in [1..NumPackets(innerWidth) ->
                                   RandomSamples \X RandomSamples
                                     \X RandomSamples \X RandomSamples] :
                     Construct(inits)

\* initMap: look the canvas up and construct the map on it.
InitMap ==
  IF ~hasCanvas
    THEN /\ phase' = "inactive"
         /\ UNCHANGED <<errorRaised, constructorCalls, resizeListener,
                        motionListener, pendingFrames, mapVars>>
    ELSE /\ constructorCalls' = constructorCalls + 1
         /\ IF ~contextAvailable
              THEN /\ phase' = "failed"
                   /\ errorRaised' = TRUE
                   /\ UNCHANGED <<resizeListener, motionListener,
                                  pendingFrames, mapVars>>
              ELSE \E inits \in [1..NumPackets(innerWidth) ->
                                   RandomSamples \X RandomSamples
                                     \X RandomSamples \X RandomSamples] :
                     Construct(inits)

\* The module's top-level statement.
ModuleLoad ==
  /\ phase = "script"
  /\ UNCHANGED <<hasWindow, hasCanvas, contextAvailable, innerWidth,
                 innerHeight, devicePixelRatio, mediaMatches, readyState, probe>>
  /\ IF ~hasWindow
       THEN /\ phase' = "inactive"
            /\ UNCHANGED <<errorRaised, constructorCalls, domListener,
                           resizeListener, motionListener, pendingFrames,
                           mapVars>>
       ELSE IF readyState = "loading"
              THEN /\ phase' = "waiting"
                   /\ domListener' = TRUE
                   /\ UNCHANGED <<errorRaised, constructorCalls,
                                  resizeListener, motionListener,
                                  pendingFrames, mapVars>>
              ELSE /\ UNCHANGED domListener
                   /\ InitMap

\* The document finishes loading: DOMContentLoaded is dispatched, once, and
\* the listener waiting for it runs initMap.  readyState is followed to
\* "complete", the value it settles at.
DOMContentLoaded ==
  /\ phase = "waiting"
  /\ domListener
  /\ readyState' = "complete"
  /\ domListener' = FALSE
  /\ UNCHANGED <<hasWindow, hasCanvas, contextAvailable, innerWidth,
                 innerHeight, devicePixelRatio, mediaMatches, probe>>
  /\ InitMap

\* A frame callback: animate().
Animate ==
  /\ phase = "running"
  /\ pendingFrames > 0
  /\ frame < MaxFrames
  /\ dataPackets' \in StepAll(dataPackets, prefersReducedMotion)
  /\ drawn' = Painted(dataPackets', offsetX, offsetY, mapWidth, mapHeight)
  /\ pendingFrames' = (pendingFrames - 1) + FramesRequested(prefersReducedMotion)
  /\ frame' = frame + 1
  /\ UNCHANGED <<pageVars, phase, errorRaised, constructorCalls, domListener,
                 resizeListener, motionListener, projVars, canvasWidth,
                 canvasHeight, ctxScale, prefersReducedMotion, pixelRatio,
                 connections, probe>>

\* A resize listener that also rebuilds the packets when the width calls
\* for another count.
ResizeEventReinit(w, h) ==
  /\ resizeListener
  /\ innerWidth' = w /\ innerHeight' = h
  /\ LET r == Resize(w, h, pixelRatio)
     IN  /\ width' = r.width /\ height' = r.height
         /\ canvasWidth' = r.canvasWidth /\ canvasHeight' = r.canvasHeight
         /\ ctxScale' = ScaleAfterResize(ctxScale, pixelRatio)
         /\ mapWidth' = r.mapWidth /\ mapHeight' = r.mapHeight
         /\ offsetX' = r.offsetX /\ offsetY' = r.offsetY
  /\ drawn' = <<>>
  /\ dataPackets' = IF NumPackets(w) = Len(dataPackets)
                      THEN dataPackets
                      ELSE [i \in 1..NumPackets(w) |-> NewPacket(<<0, 0, 0, 0>>)]
  /\ UNCHANGED <<hasWindow, readyState, hasCanvas, contextAvailable,
                 devicePixelRatio, mediaMatches, bootVars,
                 prefersReducedMotion, pixelRatio, connections, frame, probe>>

\* The window is resized to w x h and the "resize" listener runs resize().
\* Assigning the canvas its size clears what was painted.
ResizeEvent(w, h) ==
  /\ resizeListener
  /\ innerWidth' = w /\ innerHeight' = h
  /\ LET r == Resize(w, h, pixelRatio)
     IN  /\ width' = r.width /\ height' = r.height
         /\ canvasWidth' = r.canvasWidth /\ canvasHeight' = r.canvasHeight
         /\ ctxScale' = ScaleAfterResize(ctxScale, pixelRatio)
         /\ mapWidth' = r.mapWidth /\ mapHeight' = r.mapHeight
         /\ offsetX' = r.offsetX /\ offsetY' = r.offsetY
  /\ drawn' = <<>>
  /\ UNCHANGED <<hasWindow, readyState, hasCanvas, contextAvailable,
                 devicePixelRatio, mediaMatches, bootVars, dataPackets,
                 prefersReducedMotion, pixelRatio, connections, frame, probe>>

\* The reduced-motion preference changes and the "change" listener runs.
MotionChange ==
  /\ motionListener
  /\ mediaMatches' = ~mediaMatches
  /\ prefersReducedMotion' = mediaMatches'
  /\ UNCHANGED <<hasWindow, readyState, hasCanvas, contextAvailable,
                 innerWidth, innerHeight, devicePixelRatio, bootVars,
                 projVars, canvasVars, dataPackets, pixelRatio, connections,
                 frame, probe>>

Next ==
  \/ ModuleLoad
  \/ DOMContentLoaded
  \/ Animate
  \/ \E v \in Viewports : ResizeEvent(v[1], v[2])
  \/ MotionChange

Spec == Init /\ [][Next]_vars

\* ------------------------------------------- the formulas, evaluated directly

\* Viewport widths and heights the formulas are evaluated under, from the
\* smallest positive one up: every aspect ratio from 1:1000 to 1000:1.
ProbeSizes == {1, 360, 768, 1000}

\* Latitudes and longitudes within the bounding box, its edges included.
ProbeLats == {Real(US_LAT_MIN), Real(US_LAT_MIN) + 10, 30330, 37000,
              Real(US_LAT_MAX) - 10, Real(US_LAT_MAX)}
ProbeLons == {Real(US_LON_MIN), Real(US_LON_MIN) + 10, -95500,
              Real(US_LON_MAX) - 10, Real(US_LON_MAX)}

\* Progress values the packet position is evaluated at: 0, 0.5 and 1.
ProbeProgress == {0, Unit \div 2, Unit}

\* A map as the constructor leaves it on a host that prefers reduced motion
\* (so that the first animate() leaves the new packets as created), every
\* draw of Math.random() being 0.
InitFormula ==
  \E host \in Hosts :
    LET pr == IF host.devicePixelRatio = 0 THEN Real(1)
                                           ELSE host.devicePixelRatio
        r == Resize(host.innerWidth, host.innerHeight, pr)
    IN  /\ hasWindow = TRUE /\ readyState = "complete"
        /\ hasCanvas = TRUE /\ contextAvailable = TRUE
        /\ innerWidth = host.innerWidth /\ innerHeight = host.innerHeight
        /\ devicePixelRatio = host.devicePixelRatio
        /\ mediaMatches = TRUE
        /\ phase = "running" /\ errorRaised = FALSE /\ constructorCalls = 1
        /\ domListener = FALSE /\ resizeListener = TRUE
        /\ motionListener = TRUE /\ pendingFrames = 1
        /\ width = r.width /\ height = r.height
        /\ mapWidth = r.mapWidth /\ mapHeight = r.mapHeight
        /\ offsetX = r.offsetX /\ offsetY = r.offsetY
        /\ dataPackets = [i \in 1..NumPackets(host.innerWidth) |->
                            NewPacket(<<0, 0, 0, 0>>)]
        /\ prefersReducedMotion = TRUE
        /\ pixelRatio = pr
        /\ connections = GenerateConnections(Len(edgeLocations))
        /\ canvasWidth = r.canvasWidth /\ canvasHeight = r.canvasHeight
        /\ ctxScale = ScaleAfterResize(Real(1), pr)
        /\ drawn = Painted(dataPackets, r.offsetX, r.offsetY,
                           r.mapWidth, r.mapHeight)
        /\ frame = 1
        /\ probe = NoProbe

\* latLonToXY(lat, lon) under the current projection parameters.
ProbeLatLon(lat, lon) ==
  /\ phase = "running"
  /\ probe' = [kind |-> "latLonToXY", lat |-> lat, lon |-> lon,
               point |-> LatLonToXY(lat, lon, offsetX, offsetY,
                                    mapWidth, mapHeight)]
  /\ UNCHANGED <<pageVars, bootVars, projVars, canvasVars, dataPackets,
                 prefersReducedMotion, pixelRatio, connections, frame>>

\* The position drawDataPackets computes for a packet from location i to
\* location j at progress t, under the current projection parameters.
ProbePacket(i, j, t) ==
  /\ phase = "running"
  /\ probe' = [kind |-> "packet", from |-> i, to |-> j, t |-> t,
               point |-> PacketXY(
                 LocationPoint(i, offsetX, offsetY, mapWidth, mapHeight),
                 LocationPoint(j, offsetX, offsetY, mapWidth, mapHeight), t)]
  /\ UNCHANGED <<pageVars, bootVars, projVars, canvasVars, dataPackets,
                 prefersReducedMotion, pixelRatio, connections, frame>>

\* Any sequence of resize events, then the formulas evaluated under the
\* parameters the last of them stored.
NextFormula ==
  \/ /\ probe = NoProbe
     /\ \E w \in ProbeSizes, h \in ProbeSizes : ResizeEvent(w, h)
  \/ \E lat \in ProbeLats, lon \in ProbeLons : ProbeLatLon(lat, lon)
  \/ \E i \in 0..(Len(edgeLocations) - 1), j \in 0..(Len(edgeLocations) - 1),
        t \in ProbeProgress : ProbePacket(i, j, t)

SpecFormula == InitFormula /\ [][NextFormula]_vars

\* ------------------------------------------------------------------ claims

LocationIndices == 0..(Len(edgeLocations) - 1)

Project(lat, lon) == LatLonToXY(lat, lon, offsetX, offsetY, mapWidth, mapHeight)

\* A step that is a frame callback of the running map.
Tick == phase = "running" /\ frame' = frame + 1

ProgressInRange ==
  \A i \in 1..Len(dataPackets) :
    dataPackets[i].progress >= 0 /\ dataPackets[i].progress < Unit

WrapResets ==
  (Tick /\ ~prefersReducedMotion) =>
    /\ Len(dataPackets') = Len(dataPackets)
    /\ \A i \in 1..Len(dataPackets) :
         LET p == dataPackets[i]
             q == dataPackets'[i]
         IN  IF p.progress + p.speed >= Unit
               THEN /\ q.progress = 0
                    /\ q.from \in LocationIndices
                    /\ q.to \in LocationIndices
               ELSE /\ q.progress = p.progress + p.speed
                    /\ q.from = p.from
                    /\ q.to = p.to

\* C1: in every state every packet's progress is in [0, 1); and in a tick
\* with motion allowed, a packet whose progress + speed reaches 1 leaves the
\* tick with progress exactly 0 and with from and to indices of the location
\* table, while any other packet just advances by its speed.
C1_ProgressInUnitInterval == []ProgressInRange /\ [][WrapResets]_vars

\* Two packets after exactly one advancing tick: one advanced from 0 by its
\* speed, the other, created at 0.999, wrapped to 0 in that tick.
C1_Witness ==
  /\ phase = "running"
  /\ \E a \in 1..Len(dataPackets), b \in 1..Len(dataPackets) :
       /\ dataPackets[a].progress = 0
       /\ dataPackets[b].progress = dataPackets[b].speed

\* C2: a tick taken while the reduced-motion flag is set leaves the packet
\* array as it was (progress, from, to of every packet), and still paints
\* every packet, at the position of its unchanged progress.
C2_FrozenUnderReducedMotion ==
  [][(Tick /\ prefersReducedMotion) =>
       /\ dataPackets' = dataPackets
       /\ Len(drawn') = Len(dataPackets)
       /\ drawn' = Painted(dataPackets, offsetX, offsetY, mapWidth, mapHeight)]_vars

\* Every tick so far (the constructor's and MaxFrames - 1 callbacks) ran
\* under reduced motion: a packet still sits at the 0.999 it was created
\* with, which no advancing tick leaves in place, and the packets are painted.
C2_Witness ==
  /\ phase = "running"
  /\ prefersReducedMotion
  /\ frame >= 3
  /\ Len(drawn) = Len(dataPackets)
  /\ \E i \in 1..Len(dataPackets) : dataPackets[i].progress = Unit - 1

UnorderedPair(c) == {c.from, c.to}

\* C3: once the map is constructed, for M locations the connections are
\* exactly M*(M-1)/2 index pairs with 0 <= from < to < M, no two of them
\* naming the same unordered pair, in every later state; before and without
\* construction there are none.
C3_CompleteGraph ==
  LET M == Len(edgeLocations)
  IN  IF phase = "running"
        THEN /\ Len(connections) = (M * (M - 1)) \div 2
             /\ \A k \in 1..Len(connections) :
                  /\ 0 <= connections[k].from
                  /\ connections[k].from < connections[k].to
                  /\ connections[k].to < M
             /\ \A a \in 1..Len(connections), b \in 1..Len(connections) :
                  a < b =>
                    UnorderedPair(connections[a]) # UnorderedPair(connections[b])
        ELSE connections = <<>>

\* The connections of a map that has ticked with motion allowed and has
\* then been resized.
C3_Witness ==
  /\ phase = "running"
  /\ frame >= 2
  /\ drawn = <<>>
  /\ \E i \in 1..Len(dataPackets) :
       dataPackets[i].progress = 2 * dataPackets[i].speed
  /\ Len(connections) > 1

BoxCorners ==
  {<<lat, lon>> : lat \in {Real(US_LAT_MIN), Real(US_LAT_MAX)},
                  lon \in {Real(US_LON_MIN), Real(US_LON_MAX)}}

\* C4: after any resize events, latLonToXY puts each of the four corners of
\* the bounding box inside [offsetX, offsetX + mapWidth] x
\* [offsetY, offsetY + mapHeight] of the parameters the last resize stored.
C4_CornersInsideMap ==
  phase = "running" =>
    \A c \in BoxCorners :
      LET p == Project(c[1], c[2])
      IN  /\ offsetX <= p.x /\ p.x <= offsetX + mapWidth
          /\ offsetY <= p.y /\ p.y <= offsetY + mapHeight

\* The south-east corner projected after a resize to the widest viewport
\* (1000 x 1, the branch that fits the map's height).
C4_Witness ==
  /\ Div(width, height) > usAspectRatio
  /\ innerWidth = 1000 /\ innerHeight = 1
  /\ probe.kind = "latLonToXY"
  /\ probe.lat = Real(US_LAT_MIN) /\ probe.lon = Real(US_LON_MAX)
  /\ probe.point = [x |-> offsetX + mapWidth, y |-> offsetY + mapHeight]
  /\ mapWidth > 0

\* C5: under the parameters of any resize, for latitudes and longitudes of
\* the bounding box, x does not decrease as the longitude grows at a fixed
\* latitude, and y does not increase as the latitude grows at a fixed
\* longitude.
C5_ProjectionMonotonic ==
  phase = "running" =>
    /\ \A lat \in ProbeLats, lon1 \in ProbeLons, lon2 \in ProbeLons :
         lon1 <= lon2 => Project(lat, lon1).x <= Project(lat, lon2).x
    /\ \A lon \in ProbeLons, lat1 \in ProbeLats, lat2 \in ProbeLats :
         lat1 <= lat2 => Project(lat1, lon).y >= Project(lat2, lon).y

\* A point inside the box projected strictly inside the map, in the branch
\* that fits the map's width.
C5_Witness ==
  /\ ~(Div(width, height) > usAspectRatio)
  /\ probe.kind = "latLonToXY"
  /\ probe.lat > Real(US_LAT_MIN) /\ probe.lat < Real(US_LAT_MAX)
  /\ probe.lon > Real(US_LON_MIN) /\ probe.lon < Real(US_LON_MAX)
  /\ probe.point = Project(probe.lat, probe.lon)
  /\ probe.point.x > offsetX /\ probe.point.x < offsetX + mapWidth
  /\ probe.point.y > offsetY /\ probe.point.y < offsetY + mapHeight

\* The 28 locations of the table under the current projection parameters.
ProjectedLocations ==
  {Project(AllEdgeLocations[i].lat, AllEdgeLocations[i].lon) :
     i \in 1..Len(AllEdgeLocations)}

\* Control coordinates other than the one drawDataPackets computes.
ControlSamples == {-Real(ControlLift), Real(1000)}

\* C6: for every pair of locations of the table, under the parameters of
\* any resize, the packet position at progress 0 is exactly the projected
\* source and at progress 1 exactly the projected destination; and the
\* interpolation has these end values for any control coordinate.
C6_BezierEndpoints ==
  phase = "running" =>
    \A a \in ProjectedLocations, b \in ProjectedLocations :
      /\ PacketXY(a, b, 0) = a
      /\ PacketXY(a, b, Unit) = b
      /\ \A c \in ControlSamples :
           /\ Bezier(a.x, c, b.x, 0) = a.x /\ Bezier(a.x, c, b.x, Unit) = b.x
           /\ Bezier(a.y, c, b.y, 0) = a.y /\ Bezier(a.y, c, b.y, Unit) = b.y

\* The position at progress 1 between two different locations, evaluated
\* directly: the destination, and not the source.
C6_Witness ==
  /\ probe.kind = "packet"
  /\ probe.t = Unit
  /\ probe.from # probe.to
  /\ probe.point = LocationPoint(probe.to, offsetX, offsetY, mapWidth, mapHeight)
  /\ probe.point # LocationPoint(probe.from, offsetX, offsetY, mapWidth, mapHeight)

\* C7: once the map is constructed exactly one frame callback is pending in
\* every state, whatever ticks, resizes and reduced-motion changes have
\* run, so the next tick can always run (within the ticks explored);
\* without a constructed map none is pending.
C7_OneFramePending ==
  /\ phase = "running" =>
       /\ pendingFrames = 1
       /\ frame < MaxFrames => ENABLED Animate
  /\ phase # "running" => pendingFrames = 0

\* Ticks taken under reduced motion, and the next one still pending.
C7_Witness ==
  /\ phase = "running"
  /\ prefersReducedMotion
  /\ frame >= 2
  /\ pendingFrames = 1
  /\ \A i \in 1..Len(dataPackets) : dataPackets[i].progress = Unit - 1

Booted == phase \notin {"script", "waiting"}

\* C8: with a canvas whose 2D context cannot be acquired the constructor
\* runs once, raises, and leaves no frame scheduled, no resize or
\* reduced-motion listener, no packets and no connections; with no canvas
\* element no constructor runs and nothing is raised; the constructor never
\* runs twice.
C8_ConstructionFailure ==
  /\ constructorCalls <= 1
  /\ (Booted /\ hasWindow /\ hasCanvas /\ ~contextAvailable) => phase = "failed"
  /\ phase = "failed" =>
       /\ errorRaised
       /\ constructorCalls = 1
       /\ pendingFrames = 0 /\ frame = 0
       /\ ~resizeListener /\ ~motionListener
       /\ dataPackets = <<>> /\ connections = <<>>
  /\ (Booted /\ hasWindow /\ ~hasCanvas) =>
       /\ phase = "inactive"
       /\ ~errorRaised
       /\ constructorCalls = 0
       /\ pendingFrames = 0

\* The constructor has thrown from the DOMContentLoaded listener.
C8_Witness ==
  /\ phase = "failed"
  /\ errorRaised
  /\ readyState = "complete" /\ ~domListener
  /\ hasCanvas /\ ~contextAvailable

\* C9: a resize event that finds the viewport as the previous resize() left
\* it stored (same width, height and pixel ratio) leaves width, height,
\* mapWidth, mapHeight, offsetX, offsetY, the canvas backing-buffer size and
\* the context's scale transform as they were.
C9_ResizeIdempotent ==
  [][(phase = "running" /\ ResizeEvent(innerWidth, innerHeight)) =>
       UNCHANGED <<projVars, canvasWidth, canvasHeight, ctxScale>>]_vars

\* A map built at pixel ratio 2 whose resize() has run again for the
\* viewport it was built for: the canvas is cleared, the scale is still 2.
C9_Witness ==
  /\ phase = "running"
  /\ pixelRatio = Real(2)
  /\ Len(dataPackets) = NumPackets(innerWidth)
  /\ width = Real(innerWidth) /\ height = Real(innerHeight)
  /\ drawn = <<>>
  /\ ctxScale = Real(2)
  /\ canvasWidth = 2 * innerWidth

\* C10: on the running map, a step that is not a tick leaves the packet
\* array as it was; a step that changes the viewport (a resize event), also
\* one that takes the width across the 768 threshold, leaves the packet
\* array and the reduced-motion flag as they were; and a tick leaves the
\* projection parameters, the number of packets, every packet's speed and
\* the connections as they were.
C10_SingleWriter ==
  [][phase = "running" =>
       /\ frame' = frame => dataPackets' = dataPackets
       /\ (innerWidth' # innerWidth \/ innerHeight' # innerHeight) =>
            /\ dataPackets' = dataPackets
            /\ prefersReducedMotion' = prefersReducedMotion
            /\ width' = Real(innerWidth') /\ height' = Real(innerHeight')
       /\ frame' # frame =>
            /\ UNCHANGED <<projVars, connections, prefersReducedMotion>>
            /\ Len(dataPackets') = Len(dataPackets)
            /\ \A i \in 1..Len(dataPackets) :
                 dataPackets'[i].speed = dataPackets[i].speed]_vars

\* A map built with the narrow viewport's packet count, now on a viewport
\* beyond the threshold, after further ticks.
C10_Witness ==
  /\ phase = "running"
  /\ Len(dataPackets) = PacketsNarrow
  /\ innerWidth >= NarrowBelow
  /\ frame >= 2
  /\ drawn # <<>>

====
